---- MODULE Spec2Model ----
(***************************************************************************)
(* Model of train.py: the Melody-RNN codec (streamToNoteArray,             *)
(* noteArrayToDataFrame) and the model exporter (compressConfig,           *)
(* get_weights, get_model_for_export).                                     *)
(*                                                                         *)
(* Times (offsets, quarter lengths, decoded durations) are fixed-point, in  *)
(* eighths of a quarter note: 0.25 quarter notes are GridUnit = 2 units,   *)
(* so every value is an exact binary float in the program and the program  *)
(* rounds a half (an odd number of units) to the even tick.                *)
(* Sequences are 1-based: Python's output[k] is output[k + 1] here.        *)
(*                                                                         *)
(* np.int is taken as Python's int (NumPy before 1.24, which the code      *)
(* targets) and np.round rounds a half to the even integer. The functions  *)
(* are called directly with all their arguments: main() calls              *)
(* get_model_for_export without its vocabulary argument.                   *)
(***************************************************************************)
EXTENDS Integers, Sequences, FiniteSets, TLC

VARIABLES stream, pc, output, raised, note_array, frame,
          model, byteorder, xpc, weight_bytes, artifact, xraised

vars == <<stream, pc, output, raised, note_array, frame,
          model, byteorder, xpc, weight_bytes, artifact, xraised>>

codecVars == <<stream, pc, output, raised, note_array, frame>>

exportVars == <<model, byteorder, xpc, weight_bytes, artifact, xraised>>

(***************************************************************************)
(* Bounds of the checked instances.                                        *)
(***************************************************************************)
MaxOnset == 3

MaxDur == 3

MaxNotes == 2

MaxTick == 3

MaxAlignedNotes == 3

MaxLen == 5

MaxLayers == 2

MaxGroups == 2

MaxScalars == 4

(***************************************************************************)
(* Program constants.                                                      *)
(***************************************************************************)
MELODY_NOTE_OFF == 128

MELODY_NO_EVENT == 129

\* 0.25 quarter notes, in eighths of a quarter note
GridUnit == 2

\* the missing value diff(-1) leaves in the last row; no column holds a negative
NaN == 0 - 1

(***************************************************************************)
(* Small helpers.                                                          *)
(***************************************************************************)
SetMax(S) == CHOOSE x \in S : \A y \in S : y <= x

(***************************************************************************)
(* Grid quantizer: np.round(value / 0.25), round half to even.             *)
(***************************************************************************)
Quantize(v) ==
    LET q == v \div GridUnit
        r == v % GridUnit
    IN IF 2 * r < GridUnit THEN q
       ELSE IF 2 * r > GridUnit THEN q + 1
       ELSE IF q % 2 = 0 THEN q ELSE q + 1

(***************************************************************************)
(* The music21 stream handed to streamToNoteArray.                         *)
(***************************************************************************)
Pitches == {60, 67}

PitchSets ==
    {{}} \cup {{p} : p \in Pitches} \cup {S \in SUBSET Pitches : Cardinality(S) >= 2}

KindOf(ps) ==
    IF ps = {} THEN "Rest" ELSE IF Cardinality(ps) = 1 THEN "Note" ELSE "Chord"

ElementsOver(onsets, durs) ==
    {[kind |-> KindOf(ps), offset |-> o, quarterLength |-> d, pitches |-> ps] :
        o \in onsets, d \in durs, ps \in PitchSets}

\* stream.flat iterates the elements in offset order
MayFollow(s, e) == s = <<>> \/ s[Len(s)].offset <= e.offset

RECURSIVE StreamsOver(_, _)
StreamsOver(elems, maxn) ==
    IF maxn = 0 THEN {<<>>}
    ELSE LET shorter == StreamsOver(elems, maxn - 1)
             longest == {s \in shorter : Len(s) = maxn - 1}
         IN shorter \cup
            {Append(pr[1], pr[2]) :
                pr \in {x \in longest \X elems : MayFollow(x[1], x[2])}}

\* an element starts no earlier than the release of the one before it
StartsAfter(s, e) ==
    s = <<>> \/ s[Len(s)].offset + s[Len(s)].quarterLength <= e.offset

RECURSIVE DisjointStreamsOver(_, _)
DisjointStreamsOver(elems, maxn) ==
    IF maxn = 0 THEN {<<>>}
    ELSE LET shorter == DisjointStreamsOver(elems, maxn - 1)
             longest == {s \in shorter : Len(s) = maxn - 1}
         IN shorter \cup
            {Append(pr[1], pr[2]) :
                pr \in {x \in longest \X elems : StartsAfter(x[1], x[2])}}

\* stream.flat.highestTime: latest release time of any element, 0 when empty
HighestTime(s) ==
    IF s = <<>> THEN 0
    ELSE SetMax({s[k].offset + s[k].quarterLength : k \in 1 .. Len(s)})

IsPitched(e) == e.kind \in {"Note", "Chord"}

\* one row [pos, dur, pitch] per Note or Chord; a chord gives its top pitch
StreamRow(e) ==
    [pos |-> Quantize(e.offset), dur |-> Quantize(e.quarterLength),
     pitch |-> SetMax(e.pitches)]

RECURSIVE StreamList(_)
StreamList(s) ==
    IF s = <<>> THEN <<>>
    ELSE IF IsPitched(Head(s)) THEN <<StreamRow(Head(s))>> \o StreamList(Tail(s))
         ELSE StreamList(Tail(s))

(***************************************************************************)
(* df.sort_values(['pos', 'pitch'], ascending=[True, False]) is a stable   *)
(* lexicographic sort; drop_duplicates(subset=['pos']) keeps the first row *)
(* of every pos.                                                           *)
(***************************************************************************)
RowBeforeLowestFirst(a, b) == a.pos < b.pos \/ (a.pos = b.pos /\ a.pitch < b.pitch)

RowBefore(a, b) == a.pos < b.pos \/ (a.pos = b.pos /\ a.pitch > b.pitch)

RECURSIVE InsertRow(_, _)
InsertRow(sorted, r) ==
    IF sorted = <<>> THEN <<r>>
    ELSE IF RowBefore(r, Head(sorted)) THEN <<r>> \o sorted
         ELSE <<Head(sorted)>> \o InsertRow(Tail(sorted), r)

RECURSIVE SortValues(_)
SortValues(rows) ==
    IF rows = <<>> THEN <<>>
    ELSE InsertRow(SortValues(SubSeq(rows, 1, Len(rows) - 1)), rows[Len(rows)])

RECURSIVE DropDuplicates(_)
DropDuplicates(rows) ==
    IF rows = <<>> THEN <<>>
    ELSE LET rest == DropDuplicates(SubSeq(rows, 1, Len(rows) - 1))
             last == rows[Len(rows)]
         IN IF \E k \in 1 .. Len(rest) : rest[k].pos = last.pos
            THEN rest ELSE Append(rest, last)

\* df[df.pos == i]
RowsAt(rows, t) == LET AtT(r) == r.pos = t IN SelectSeq(rows, AtT)

\* np.zeros(total_length + 1) + MELODY_NO_EVENT
NoEvents(n) == [k \in 1 .. n + 1 |-> MELODY_NO_EVENT]

(***************************************************************************)
(* noteArrayToDataFrame, one pandas operation per operator.                *)
(***************************************************************************)
\* pd.DataFrame({"code": note_array}); offset and duration start as the index
IndexFrame(arr) ==
    [k \in 1 .. Len(arr) |-> [code |-> arr[k], offset |-> k - 1, duration |-> k - 1]]

\* df[df.code != MELODY_NO_EVENT]
DropNoEvent(rows) ==
    LET IsEvent(r) == r.code # MELODY_NO_EVENT IN SelectSeq(rows, IsEvent)

DiffDurationForward(rows) ==
    [k \in 1 .. Len(rows) |->
        [rows[k] EXCEPT !.duration =
            IF k = 1 THEN NaN
            ELSE (rows[k].duration - rows[k - 1].duration) * GridUnit]]

\* df.duration.diff(-1) * -1 * 0.25: NaN in the last row
DiffDuration(rows) ==
    [k \in 1 .. Len(rows) |->
        [rows[k] EXCEPT !.duration =
            IF k = Len(rows) THEN NaN
            ELSE (rows[k].duration - rows[k + 1].duration) * (0 - 1) * GridUnit]]

FillNaZero(rows) ==
    [k \in 1 .. Len(rows) |->
        [code |-> IF rows[k].code = NaN THEN 0 ELSE rows[k].code,
         offset |-> IF rows[k].offset = NaN THEN 0 ELSE rows[k].offset,
         duration |-> IF rows[k].duration = NaN THEN 0 ELSE rows[k].duration]]

\* df.fillna(0.25)
FillNa(rows) ==
    [k \in 1 .. Len(rows) |->
        [code |-> IF rows[k].code = NaN THEN GridUnit ELSE rows[k].code,
         offset |-> IF rows[k].offset = NaN THEN GridUnit ELSE rows[k].offset,
         duration |-> IF rows[k].duration = NaN THEN GridUnit ELSE rows[k].duration]]

\* df[['code', 'duration']]
CodeDuration(rows) ==
    [k \in 1 .. Len(rows) |-> [code |-> rows[k].code, duration |-> rows[k].duration]]

NoteArrayToDataFrame(arr) == CodeDuration(FillNa(DiffDuration(DropNoEvent(IndexFrame(arr)))))

(***************************************************************************)
(* streamToNoteArray.                                                      *)
(***************************************************************************)
NoException == [type |-> "None", line |-> 0]

\* np.int(np.round(stream.flat.highestTime / 0.25))
TotalLength(s) == Quantize(HighestTime(s))

\* the dataframe after sort_values and drop_duplicates
NoteFrame(s) == DropDuplicates(SortValues(StreamList(s)))

NoteOffIndexPastEnd(t, n) == t + n.dur + 1

\* the index i + n.dur of the NOTE_OFF of the note n found at tick t
NoteOffIndex(t, n) == t + n.dur

RECURSIVE FillOutput(_, _, _, _)
\* for i in range(total_length): the note found at tick i is written with its
\* NOTE_OFF; numpy raises IndexError on an index past the last element
FillOutput(out, rows, total, t) ==
    IF t >= total THEN [raised |-> NoException, output |-> out]
    ELSE IF RowsAt(rows, t) = <<>> THEN FillOutput(out, rows, total, t + 1)
    ELSE LET n == RowsAt(rows, t)[1]
             on == [out EXCEPT ![t + 1] = n.pitch]
             off == NoteOffIndex(t, n)
         IN IF off + 1 > Len(on)
            THEN [raised |-> [type |-> "IndexError", line |-> 66], output |-> <<>>]
            ELSE FillOutput([on EXCEPT ![off + 1] = MELODY_NOTE_OFF],
                            rows, total, t + 1)

\* np_stream_list.T[0] of an array built from an empty list raises IndexError
StreamToNoteArray(s) ==
    IF StreamList(s) = <<>>
    THEN [raised |-> [type |-> "IndexError", line |-> 52], output |-> <<>>]
    ELSE FillOutput(NoEvents(TotalLength(s)), NoteFrame(s), TotalLength(s), 0)

(***************************************************************************)
(* Codec state machine: encode a stream, then decode the returned array.   *)
(***************************************************************************)
ExportIdle ==
    /\ model = <<>>
    /\ byteorder = "little"
    /\ xpc = "idle"
    /\ weight_bytes = <<>>
    /\ artifact = <<>>
    /\ xraised = NoException

CodecStart(streams) ==
    /\ stream \in streams
    /\ pc = "encode"
    /\ output = <<>>
    /\ raised = NoException
    /\ note_array = <<>>
    /\ frame = <<>>
    /\ ExportIdle

\* any stream within the bounds, on or off the grid
Init ==
    CodecStart(StreamsOver(ElementsOver(0 .. MaxOnset, 0 .. MaxDur), MaxNotes))

Ticks == {GridUnit * t : t \in 0 .. MaxTick}

\* grid-aligned streams of non-overlapping elements: every offset and quarter
\* length is a multiple of 0.25
InitAligned ==
    CodecStart(DisjointStreamsOver(ElementsOver(Ticks, Ticks), MaxAlignedNotes))

EncodeStream ==
    /\ pc = "encode"
    /\ LET r == StreamToNoteArray(stream)
       IN IF r.raised = NoException
          THEN /\ output' = r.output
               /\ note_array' = r.output
               /\ pc' = "decode"
               /\ UNCHANGED raised
          ELSE /\ raised' = r.raised
               /\ pc' = "raised"
               /\ UNCHANGED <<output, note_array>>
    /\ UNCHANGED <<stream, frame>>
    /\ UNCHANGED exportVars

DecodeArray ==
    /\ pc = "decode"
    /\ frame' = NoteArrayToDataFrame(note_array)
    /\ pc' = "done"
    /\ UNCHANGED <<stream, output, raised, note_array>>
    /\ UNCHANGED exportVars

Next == EncodeStream \/ DecodeArray

Spec == Init /\ [][Next]_vars

SpecAligned == InitAligned /\ [][Next]_vars

(***************************************************************************)
(* noteArrayToDataFrame alone, on any Melody-RNN array within the bounds.  *)
(***************************************************************************)
Codes == Pitches \cup {MELODY_NOTE_OFF, MELODY_NO_EVENT}

InitDecode ==
    /\ stream = <<>>
    /\ pc = "decode"
    /\ output = <<>>
    /\ raised = NoException
    /\ note_array \in UNION {[1 .. n -> Codes] : n \in 0 .. MaxLen}
    /\ frame = <<>>
    /\ ExportIdle

NextDecode == DecodeArray

SpecDecode == InitDecode /\ [][NextDecode]_vars

(***************************************************************************)
(* The trained model handed to get_model_for_export: per layer, the class  *)
(* name and config that model.to_json() reports and the weight groups that *)
(* layer.get_weights() returns. A weight group is a float32 array, held    *)
(* as its rows; a one-dimensional group is a single row.                   *)
(***************************************************************************)
Scalars == {"1.0", "-2.0", "nan", "inf"}

Recognized ==
    {"InputLayer", "Rescaling", "Dense", "Conv2D", "MaxPooling2D", "Embedding",
     "SimpleRNN", "LSTM"}

ClassNames == Recognized \cup {"Activation", "Dropout"}

\* the keys Keras serializes for a layer of the class
FullKeys(c) ==
    {"name", "dtype"} \cup
    CASE c = "InputLayer" -> {"batch_input_shape", "sparse", "ragged"}
      [] c = "Rescaling" -> {"trainable", "scale", "offset"}
      [] c = "Dense" -> {"trainable", "units", "activation", "use_bias"}
      [] c = "Conv2D" ->
            {"trainable", "filters", "kernel_size", "strides", "padding",
             "data_format", "activation", "use_bias"}
      [] c = "MaxPooling2D" ->
            {"trainable", "pool_size", "padding", "strides", "data_format"}
      [] c = "Embedding" -> {"trainable", "input_dim", "output_dim", "mask_zero"}
      [] c = "SimpleRNN" ->
            {"trainable", "units", "activation", "return_sequences", "stateful"}
      [] c = "LSTM" ->
            {"trainable", "units", "activation", "recurrent_activation",
             "return_sequences", "stateful"}
      [] c = "Activation" -> {"trainable", "activation"}
      [] OTHER -> {"trainable", "rate"}

\* a config whose values are tagged by key and by the variant v of the layer
FullConfig(c, v) == [key \in FullKeys(c) |-> <<key, v>>]

Variants == {1, 2}

\* the shapes <<rows, columns>> of the float32 arrays of n scalars
ShapesOfSize(n) == {x \in (1 .. n) \X (1 .. n) : x[1] * x[2] = n}

RECURSIVE ShapeLists(_, _)
\* the shapes of g weight groups that hold n scalars together
ShapeLists(n, g) ==
    IF g = 0 THEN (IF n = 0 THEN {<<>>} ELSE {})
    ELSE UNION {{<<pr[1]>> \o pr[2] : pr \in ShapesOfSize(a) \X ShapeLists(n - a, g - 1)} :
                    a \in 1 .. n}

\* the shapes of a layer of at most MaxGroups groups that hold n scalars
LayerShapes(n) == UNION {ShapeLists(n, g) : g \in 0 .. MaxGroups}

RECURSIVE ModelShapes(_, _)
\* the shapes of the models of l layers that hold n scalars together
ModelShapes(n, l) ==
    IF l = 0 THEN (IF n = 0 THEN {<<>>} ELSE {})
    ELSE UNION {{<<pr[1]>> \o pr[2] : pr \in LayerShapes(a) \X ModelShapes(n - a, l - 1)} :
                    a \in 0 .. n}

RECURSIVE ShapesSize(_)
ShapesSize(shapes) ==
    IF shapes = <<>> THEN 0
    ELSE Head(shapes)[1] * Head(shapes)[2] + ShapesSize(Tail(shapes))

\* the array of a shape whose scalars are vals[at + 1], vals[at + 2], ...
GroupOf(shape, vals, at) ==
    [r \in 1 .. shape[1] |-> [c \in 1 .. shape[2] |-> vals[at + (r - 1) * shape[2] + c]]]

RECURSIVE LayerWeightsOf(_, _, _)
LayerWeightsOf(shapes, vals, at) ==
    IF shapes = <<>> THEN <<>>
    ELSE <<GroupOf(Head(shapes), vals, at)>> \o
         LayerWeightsOf(Tail(shapes), vals, at + Head(shapes)[1] * Head(shapes)[2])

\* a layer with weights is a Dense layer, one without is an Activation
WeightedLayer(ws) ==
    LET c == IF ws = <<>> THEN "Activation" ELSE "Dense"
    IN [class_name |-> c, config |-> FullConfig(c, 1), weights |-> ws]

RECURSIVE WeightedModel(_, _, _)
\* the model of the given layer shapes whose scalars are vals, in order
WeightedModel(layers, vals, at) ==
    IF layers = <<>> THEN <<>>
    ELSE <<WeightedLayer(LayerWeightsOf(Head(layers), vals, at))>> \o
         WeightedModel(Tail(layers), vals, at + ShapesSize(Head(layers)))

HasWeights(c) == c \in {"Dense", "Conv2D", "Embedding", "SimpleRNN", "LSTM"}

DescribedLayer(c, v) ==
    [class_name |-> c, config |-> FullConfig(c, v),
     weights |-> IF HasWeights(c) THEN <<[r \in 1 .. 1 |-> [k \in 1 .. 1 |-> "1.0"]]>>
                 ELSE <<>>]

DescribedLayers == {DescribedLayer(c, v) : c \in ClassNames, v \in Variants}

DescribedModels == UNION {[1 .. n -> DescribedLayers] : n \in 0 .. MaxLayers}

(***************************************************************************)
(* get_weights and the packing loop of get_model_for_export.               *)
(***************************************************************************)
GetWeights(m) == [k \in 1 .. Len(m) |-> m[k].weights]

RECURSIVE Concat(_)
\* the concatenation of a sequence of sequences
Concat(ss) == IF ss = <<>> THEN <<>> ELSE Head(ss) \o Concat(Tail(ss))

FlattenColumnMajor(g) ==
    Concat([c \in 1 .. Len(g[1]) |-> [r \in 1 .. Len(g) |-> g[r][c]]])

\* weight_group.reshape(-1).tolist(): the rows one after the other
Flatten(g) == Concat(g)

\* the IEEE-754 single precision encoding of float(x), most significant byte first
Float32(x) ==
    CASE x = "1.0" -> <<63, 128, 0, 0>>
      [] x = "-2.0" -> <<192, 0, 0, 0>>
      [] x = "nan" -> <<127, 192, 0, 0>>
      [] x = "inf" -> <<127, 128, 0, 0>>

Reverse(b) == [k \in 1 .. Len(b) |-> b[Len(b) + 1 - k]]

\* struct.pack("@f", float(x)): four bytes in the byte order of the machine
StructPack(x, order) == IF order = "big" THEN Float32(x) ELSE Reverse(Float32(x))

PackGroup(g, order) ==
    Concat([k \in 1 .. Len(Flatten(g)) |-> StructPack(Flatten(g)[k], order)])

PackLayer(ws, order) == Concat([k \in 1 .. Len(ws) |-> PackGroup(ws[k], order)])

PackWeights(weight_np, order) ==
    Concat([k \in 1 .. Len(weight_np) |-> PackLayer(weight_np[k], order)])

(***************************************************************************)
(* base64.b64encode(weight_bytes).decode()                                 *)
(***************************************************************************)
B64Alphabet ==
    <<"A", "B", "C", "D", "E", "F", "G", "H", "I", "J", "K", "L", "M", "N", "O", "P",
      "Q", "R", "S", "T", "U", "V", "W", "X", "Y", "Z", "a", "b", "c", "d", "e", "f",
      "g", "h", "i", "j", "k", "l", "m", "n", "o", "p", "q", "r", "s", "t", "u", "v",
      "w", "x", "y", "z", "0", "1", "2", "3", "4", "5", "6", "7", "8", "9", "+", "/">>

B64Char(n) == B64Alphabet[n + 1]

RECURSIVE B64Encode(_)
B64Encode(b) ==
    IF b = <<>> THEN <<>>
    ELSE IF Len(b) = 1
    THEN <<B64Char(b[1] \div 4), B64Char((b[1] % 4) * 16), "=", "=">>
    ELSE IF Len(b) = 2
    THEN <<B64Char(b[1] \div 4), B64Char((b[1] % 4) * 16 + b[2] \div 16),
           B64Char((b[2] % 16) * 4), "=">>
    ELSE <<B64Char(b[1] \div 4), B64Char((b[1] % 4) * 16 + b[2] \div 16),
           B64Char((b[2] % 16) * 4 + b[3] \div 64), B64Char(b[3] % 64)>>
         \o B64Encode(SubSeq(b, 4, Len(b)))

(***************************************************************************)
(* compressConfig: the whitelisted keys of each recognized class.          *)
(***************************************************************************)
InputLayerConfig(cfg) == [batch_input_shape |-> cfg.batch_input_shape]

RescalingConfig(cfg) == [scale |-> cfg.scale, offset |-> cfg.offset]

DenseConfig(cfg) == [units |-> cfg.units, activation |-> cfg.activation]

Conv2DConfig(cfg) ==
    [filters |-> cfg.filters, kernel_size |-> cfg.kernel_size, strides |-> cfg.strides,
     activation |-> cfg.activation, padding |-> cfg.padding]

MaxPooling2DConfig(cfg) ==
    [pool_size |-> cfg.pool_size, strides |-> cfg.strides, padding |-> cfg.padding]

EmbeddingConfig(cfg) == [input_dim |-> cfg.input_dim, output_dim |-> cfg.output_dim]

SimpleRNNConfig(cfg) == [units |-> cfg.units, activation |-> cfg.activation]

LSTMConfigWithoutRecurrent(cfg) == [units |-> cfg.units, activation |-> cfg.activation]

LSTMConfig(cfg) ==
    [units |-> cfg.units, activation |-> cfg.activation,
     recurrent_activation |-> cfg.recurrent_activation]

\* one entry of the result: class_name, and config unless layer_config is None
CompressLayer(layer) ==
    LET cfg == layer.config
        c == layer.class_name
    IN IF c = "InputLayer" THEN [class_name |-> c, config |-> InputLayerConfig(cfg)]
       ELSE IF c = "Rescaling" THEN [class_name |-> c, config |-> RescalingConfig(cfg)]
       ELSE IF c = "Dense" THEN [class_name |-> c, config |-> DenseConfig(cfg)]
       ELSE IF c = "Conv2D" THEN [class_name |-> c, config |-> Conv2DConfig(cfg)]
       ELSE IF c = "MaxPooling2D"
       THEN [class_name |-> c, config |-> MaxPooling2DConfig(cfg)]
       ELSE IF c = "Embedding" THEN [class_name |-> c, config |-> EmbeddingConfig(cfg)]
       ELSE IF c = "SimpleRNN" THEN [class_name |-> c, config |-> SimpleRNNConfig(cfg)]
       ELSE IF c = "LSTM" THEN [class_name |-> c, config |-> LSTMConfig(cfg)]
       ELSE [class_name |-> c]

CompressConfig(data) ==
    [config |->
        [layers |-> [k \in 1 .. Len(data.config.layers) |->
                        CompressLayer(data.config.layers[k])]]]

\* json.loads(model.to_json()): the class name and config of every layer
ToJson(m) ==
    [class_name |-> "Sequential",
     config |-> [name |-> "sequential",
                 layers |-> [k \in 1 .. Len(m) |->
                                [class_name |-> m[k].class_name,
                                 config |-> m[k].config]]]]

(***************************************************************************)
(* get_model_for_export: pack the weights, then compress the config and    *)
(* write the artifact. Opening or writing the file may fail.               *)
(***************************************************************************)
CodecIdle ==
    /\ stream = <<>>
    /\ pc = "idle"
    /\ output = <<>>
    /\ raised = NoException
    /\ note_array = <<>>
    /\ frame = <<>>

ExportStart(orders) ==
    /\ byteorder \in orders
    /\ xpc = "pack"
    /\ weight_bytes = <<>>
    /\ artifact = <<>>
    /\ xraised = NoException
    /\ CodecIdle

\* any weights within the bounds, on a machine of either byte order
InitPack ==
    /\ \E n \in 0 .. MaxScalars, l \in 0 .. MaxLayers :
          \E shapes \in ModelShapes(n, l), vals \in [1 .. n -> Scalars] :
              model = WeightedModel(shapes, vals, 0)
    /\ ExportStart({"little", "big"})

\* any layer classes within the bounds
InitCompress ==
    /\ model \in DescribedModels
    /\ ExportStart({"little"})

PackModel ==
    /\ xpc = "pack"
    /\ weight_bytes' = PackWeights(GetWeights(model), byteorder)
    /\ xpc' = "assemble"
    /\ UNCHANGED <<model, byteorder, artifact, xraised>>
    /\ UNCHANGED codecVars

WriteArtifact ==
    /\ xpc = "assemble"
    /\ \E written \in BOOLEAN :
        IF written
        THEN /\ artifact' = <<[model_name |-> "musicnetgen",
                               layers_config |-> CompressConfig(ToJson(model)),
                               weight_b64 |-> B64Encode(weight_bytes)]>>
             /\ xpc' = "done"
             /\ UNCHANGED xraised
        ELSE /\ xraised' = [type |-> "OSError", line |-> 290]
             /\ xpc' = "raised"
             /\ UNCHANGED artifact
    /\ UNCHANGED <<model, byteorder, weight_bytes>>
    /\ UNCHANGED codecVars

NextExport == PackModel \/ WriteArtifact

SpecPack == InitPack /\ [][NextExport]_vars

SpecCompress == InitCompress /\ [][NextExport]_vars

(***************************************************************************)
(* Vocabulary of the codec claims, stated on the stream and the arrays.    *)
(***************************************************************************)
Returned == pc \in {"decode", "done"}

PitchedIdx == {k \in 1 .. Len(stream) : stream[k].pitches # {}}

TopOf(k) == CHOOSE p \in stream[k].pitches : \A q \in stream[k].pitches : q <= p

OnsetTick(k) == Quantize(stream[k].offset)

DurTicks(k) == Quantize(stream[k].quarterLength)

TotalTicks ==
    IF stream = <<>> THEN 0
    ELSE Quantize(CHOOSE m \in {stream[k].offset + stream[k].quarterLength :
                                    k \in 1 .. Len(stream)} :
                      \A k \in 1 .. Len(stream) :
                          stream[k].offset + stream[k].quarterLength <= m)

\* the notes and chords that quantize to onset tick t
Cand(t) == {k \in PitchedIdx : OnsetTick(k) = t}

OnsetTicks == {OnsetTick(k) : k \in PitchedIdx}

HighestPitch(t) == CHOOSE p \in {TopOf(k) : k \in Cand(t)} : \A k \in Cand(t) : TopOf(k) <= p

\* the note kept at tick t: the first in stream order among the highest ones
Kept(t) ==
    CHOOSE k \in Cand(t) :
        /\ TopOf(k) = HighestPitch(t)
        /\ \A j \in Cand(t) : TopOf(j) = HighestPitch(t) => k <= j

Holds(idx, code) == idx + 1 \in DOMAIN output /\ output[idx + 1] = code

\* C1: for every timeline with at least one note, encode never writes outside
\* the array of length totalTicks + 1 and returns an array instead of failing.
C1_EncodeStaysInBounds == PitchedIdx # {} => pc # "raised"

\* C2: for every timeline with at least one note, encode returns an array of
\* exactly quantize(maxEndTime) + 1 elements.
C2_LengthIsTotalTicksPlusOne ==
    (PitchedIdx # {} /\ pc # "encode") =>
        (Returned /\ Len(output) = TotalTicks + 1)

\* The length of every array encode does return (the part of C2 the code keeps).
C2_ReturnedLength == Returned => Len(output) = TotalTicks + 1

\* C4 as stated: where two or more notes share an onset tick and the kept one
\* lasts at least one tick, the returned array holds the highest pitch there.
C4_TieKeepsHighestEverywhere ==
    Returned =>
        \A t \in OnsetTicks :
            (Cardinality(Cand(t)) >= 2 /\ DurTicks(Kept(t)) >= 1) =>
                Holds(t, HighestPitch(t))

\* a NOTE_OFF or pitch at index idx that the kept notes account for
NoteOffExplained(idx) ==
    \E u \in OnsetTicks : u < TotalTicks /\ u + DurTicks(Kept(u)) = idx

\* C4 amended: at a shared onset tick below totalTicks the returned array holds
\* the highest pitch (when the kept note lasts at least one tick), the NOTE_OFF
\* is written at tick + the kept note's duration, where only a kept note
\* starting there replaces it, and a dropped note leaves neither its pitch at
\* the tick nor a NOTE_OFF of its own.
C4_TieKeepsHighestBelowTotal ==
    Returned =>
        \A t \in OnsetTicks :
            (Cardinality(Cand(t)) >= 2 /\ t < TotalTicks) =>
                LET off == t + DurTicks(Kept(t))
                IN /\ DurTicks(Kept(t)) >= 1 => Holds(t, HighestPitch(t))
                   /\ \/ Holds(off, MELODY_NOTE_OFF)
                      \/ /\ off \in OnsetTicks
                         /\ off > t
                         /\ off < TotalTicks
                         /\ Holds(off, HighestPitch(off))
                   /\ \A d \in Cand(t) \ {Kept(t)} :
                        /\ TopOf(d) # HighestPitch(t) => ~Holds(t, TopOf(d))
                        /\ Holds(t + DurTicks(d), MELODY_NOTE_OFF) =>
                               NoteOffExplained(t + DurTicks(d))

C4_Witness ==
    /\ Returned
    /\ \E t \in OnsetTicks :
        /\ Cardinality(Cand(t)) >= 2
        /\ t < TotalTicks
        /\ \E d \in Cand(t) : TopOf(d) < HighestPitch(t) /\ DurTicks(d) # DurTicks(Kept(t))
        /\ DurTicks(Kept(t)) >= 1
        /\ Holds(t, HighestPitch(t))
        /\ Holds(t + DurTicks(Kept(t)), MELODY_NOTE_OFF)

\* C5 as stated: a kept note of zero ticks leaves NOTE_OFF at its onset tick
\* of the returned array.
C5_ZeroTickNoteIsNoteOffEverywhere ==
    Returned =>
        \A t \in OnsetTicks : DurTicks(Kept(t)) = 0 => Holds(t, MELODY_NOTE_OFF)

\* C5 amended: a kept note of zero ticks whose onset tick is below totalTicks
\* leaves NOTE_OFF, not its pitch, at its onset tick of the returned array.
C5_ZeroTickNoteIsNoteOffBelowTotal ==
    Returned =>
        \A t \in OnsetTicks :
            (DurTicks(Kept(t)) = 0 /\ t < TotalTicks) => Holds(t, MELODY_NOTE_OFF)

C5_Witness ==
    /\ Returned
    /\ \E t \in OnsetTicks :
        /\ DurTicks(Kept(t)) = 0
        /\ stream[Kept(t)].quarterLength > 0
        /\ t < TotalTicks
        /\ Holds(t, MELODY_NOTE_OFF)

\* C6: encode of a timeline with no note, no chord and total duration 0
\* succeeds and returns the one-element array [NO_EVENT].
C6_EmptyTimelineGivesOneNoEvent ==
    (PitchedIdx = {} /\ TotalTicks = 0 /\ pc # "encode") =>
        (Returned /\ output = <<MELODY_NO_EVENT>>)

(***************************************************************************)
(* Round trip, on grid-aligned streams.                                    *)
(***************************************************************************)
OnGrid(v) == v % GridUnit = 0

Aligned ==
    \A k \in PitchedIdx : OnGrid(stream[k].offset) /\ OnGrid(stream[k].quarterLength)

NonOverlapping ==
    \A k, l \in PitchedIdx :
        k < l => stream[k].offset + stream[k].quarterLength <= stream[l].offset

IsPitchRow(r) == r.code < MELODY_NOTE_OFF

\* the (pitch, duration) pairs of the decoded rows that carry a pitch
DecodedPairs == SelectSeq(frame, IsPitchRow)

IsPitchedElement(e) == e.pitches # {}

PairOf(e) ==
    [code |-> CHOOSE p \in e.pitches : \A q \in e.pitches : q <= p,
     duration |-> e.quarterLength]

\* the (pitch, duration) pairs of the timeline, in order
TimelinePairs ==
    LET notes == SelectSeq(stream, IsPitchedElement)
    IN [k \in 1 .. Len(notes) |-> PairOf(notes[k])]

EventIdx == {j \in 1 .. Len(note_array) : note_array[j] # MELODY_NO_EVENT}

\* the k-th index of the array that holds an event
EventAt(k) == CHOOSE j \in EventIdx : Cardinality({x \in EventIdx : x < j}) = k - 1

\* C10: decode yields one row per element other than NO_EVENT, in array
\* order, with that element's code; each row but the last lasts (next event
\* index - own index) * 0.25 and the last row exactly 0.25; an array of
\* NO_EVENT only yields no row.
C10_DecodeRows ==
    pc = "done" =>
        /\ Len(frame) = Cardinality(EventIdx)
        /\ \A k \in 1 .. Len(frame) :
            /\ frame[k].code = note_array[EventAt(k)]
            /\ frame[k].duration =
                  IF k = Len(frame) THEN GridUnit
                  ELSE (EventAt(k + 1) - EventAt(k)) * GridUnit

C10_Witness ==
    /\ pc = "done"
    /\ Len(note_array) = MaxLen
    /\ note_array[Len(note_array)] = MELODY_NO_EVENT
    /\ note_array[1] = MELODY_NO_EVENT
    /\ Len(frame) = 2
    /\ frame[1].duration = 2 * GridUnit
    /\ frame[2].duration = GridUnit

(***************************************************************************)
(* Exporter claims.                                                        *)
(***************************************************************************)
LayerIdx == 1 .. Len(model)

GroupIdx(l) == 1 .. Len(model[l].weights)

\* the positions <<layer, group, row, column>> of the scalars of the model
ScalarPositions ==
    UNION {UNION {{<<l, g, r, c>> : r \in 1 .. Len(model[l].weights[g]),
                                   c \in 1 .. Len(model[l].weights[g][1])} :
                    g \in GroupIdx(l)} : l \in LayerIdx}

ScalarAt(p) == model[p[1]].weights[p[2]][p[3]][p[4]]

IsFinite(x) == x \notin {"nan", "inf"}

AllFinite == \A p \in ScalarPositions : IsFinite(ScalarAt(p))

ScalarsOfGroup(l, g) == Len(model[l].weights[g]) * Len(model[l].weights[g][1])

RECURSIVE ScalarsOfGroupsUpTo(_, _)
\* the scalars of the first g groups of layer l
ScalarsOfGroupsUpTo(l, g) ==
    IF g = 0 THEN 0 ELSE ScalarsOfGroupsUpTo(l, g - 1) + ScalarsOfGroup(l, g)

RECURSIVE ScalarsOfLayersUpTo(_)
\* the scalars of the first l layers
ScalarsOfLayersUpTo(l) ==
    IF l = 0 THEN 0
    ELSE ScalarsOfLayersUpTo(l - 1) + ScalarsOfGroupsUpTo(l, Len(model[l].weights))

\* how many scalars come before position p in layer, group, row-major order
ScalarsBefore(p) ==
    ScalarsOfLayersUpTo(p[1] - 1) + ScalarsOfGroupsUpTo(p[1], p[2] - 1)
        + (p[3] - 1) * Len(model[p[1]].weights[p[2]][1]) + (p[4] - 1)

\* the n-th 4-byte value of the buffer, most significant byte first
WordAt(n) ==
    LET w == SubSeq(weight_bytes, 4 * n + 1, 4 * n + 4)
    IN IF byteorder = "big" THEN w ELSE <<w[4], w[3], w[2], w[1]>>

\* the float an IEEE-754 single precision word stands for
FloatOfWord(w) ==
    LET sign == w[1] \div 128
        exponent == (w[1] % 128) * 2 + w[2] \div 128
        fraction == (w[2] % 128) * 65536 + w[3] * 256 + w[4]
    IN IF exponent = 255 THEN (IF fraction = 0 THEN "inf" ELSE "nan")
       ELSE IF fraction = 0 /\ exponent = 127 /\ sign = 0 THEN "1.0"
       ELSE IF fraction = 0 /\ exponent = 128 /\ sign = 1 THEN "-2.0"
       ELSE "other"

\* C8: with finite parameters only, the buffer read as 4-byte values is every
\* scalar in layer order, then group order, then row-major order, nothing
\* added or skipped: 4 bytes per scalar, none for a layer without groups.
C8_BufferIsScalarsInOrder ==
    (xpc # "pack" /\ xpc # "idle" /\ AllFinite) =>
        /\ Len(weight_bytes) = 4 * Cardinality(ScalarPositions)
        /\ \A p \in ScalarPositions : FloatOfWord(WordAt(ScalarsBefore(p))) = ScalarAt(p)

C8_Witness ==
    /\ xpc = "done"
    /\ AllFinite
    /\ Len(model) = 2
    /\ model[1].weights = <<>>
    /\ Len(model[2].weights) = 1
    /\ Len(model[2].weights[1]) = 2
    /\ Len(model[2].weights[1][1]) = 2
    /\ model[2].weights[1][1][2] # model[2].weights[1][2][1]
    /\ Len(weight_bytes) = 16

\* C9: when a parameter group holds a non-finite value, pack fails with
\* InvalidWeightDataError: no buffer with NaN or infinity bytes is produced and
\* no artifact is written.
C9_NonFiniteWeightsRejected ==
    (~AllFinite /\ xpc # "pack" /\ xpc # "idle") =>
        /\ xraised.type = "InvalidWeightDataError"
        /\ weight_bytes = <<>>
        /\ artifact = <<>>

\* the keys compress is documented to keep for each recognized class
DocumentedKeys(c) ==
    CASE c = "InputLayer" -> {"batch_input_shape"}
      [] c = "Rescaling" -> {"scale", "offset"}
      [] c = "Dense" -> {"units", "activation"}
      [] c = "Conv2D" -> {"filters", "kernel_size", "strides", "activation", "padding"}
      [] c = "MaxPooling2D" -> {"pool_size", "strides", "padding"}
      [] c = "Embedding" -> {"input_dim", "output_dim"}
      [] c = "SimpleRNN" -> {"units", "activation"}
      [] c = "LSTM" -> {"units", "activation", "recurrent_activation"}

EightKinds ==
    {"InputLayer", "Rescaling", "Dense", "Conv2D", "MaxPooling2D", "Embedding",
     "SimpleRNN", "LSTM"}

CompressedLayers == artifact[1].layers_config.config.layers

\* C7: compress gives one entry per input layer, in order, with the input
\* class_name; for each of the eight recognized kinds its config holds exactly
\* the documented keys (with the input's values), and for any other kind
\* compress does not fail and the entry has no config key.
C7_WhitelistedConfig ==
    /\ xraised.type \in {"None", "OSError"}
    /\ artifact # <<>> =>
        /\ Len(CompressedLayers) = Len(model)
        /\ \A k \in 1 .. Len(model) :
            LET entry == CompressedLayers[k]
                c == model[k].class_name
            IN /\ entry.class_name = c
               /\ IF c \in EightKinds
                  THEN /\ DOMAIN entry = {"class_name", "config"}
                       /\ DOMAIN entry.config = DocumentedKeys(c)
                       /\ \A key \in DocumentedKeys(c) :
                            entry.config[key] = model[k].config[key]
                  ELSE DOMAIN entry = {"class_name"}

C7_Witness ==
    /\ artifact # <<>>
    /\ Len(model) = 2
    /\ model[1].class_name = "LSTM"
    /\ model[2].class_name = "Activation"
    /\ DOMAIN CompressedLayers[1].config = {"units", "activation", "recurrent_activation"}
    /\ DOMAIN CompressedLayers[2] = {"class_name"}
    /\ DOMAIN model[1].config # DOMAIN CompressedLayers[1].config

====
